---- MODULE Spec2Model ----
(***************************************************************************)
(* AdvancedAPIClient (src/advance-api-client/advanced-api-client.js):      *)
(* the rate limiter (enforceRateLimit), the retry loop (retryWithBackoff)  *)
(* and the batch scheduler (batchProcess), each as a state machine over    *)
(* the client's fields and the position of every asynchronous call.        *)
(*                                                                         *)
(* JavaScript runs one job at a time: the code between two awaits is one   *)
(* atomic step, so every action below is the synchronous run of code from  *)
(* one suspension point to the next.                                       *)
(***************************************************************************)
EXTENDS Integers, Sequences, FiniteSets, TLC

VARIABLES
    \* the client's fields (constructor, lines 8-16)
    maxRetries, retryDelay, rateLimit, lastRequestTime,
    \* Date.now(), in milliseconds
    now,
    \* one retryWithBackoff call
    rpc, attempt, invocations, invokedAt, outcomes, settledAt, sleeps, rWakeAt,
    settled,
    \* the callers of enforceRateLimit
    cpc, cWakeAt, callNo, events,
    \* one batchProcess call
    items, concurrency, i, bpc, status, windows, results, errors, settleOrder,
    \* the client's default headers (line 15) and the options of one request call
    defaultHeaders, options

cfgVars   == <<maxRetries, retryDelay, rateLimit>>
retryVars == <<rpc, attempt, invocations, invokedAt, outcomes, settledAt, sleeps,
               rWakeAt, settled>>
rateVars  == <<lastRequestTime, cpc, cWakeAt, callNo, events>>
batchVars == <<items, concurrency, i, bpc, status, windows, results, errors, settleOrder>>
reqVars   == <<defaultHeaders, options>>
vars      == <<cfgVars, reqVars, now, retryVars, rateVars, batchVars>>

----------------------------------------------------------------------------
(* Bounds of the model *)

\* largest maxRetries option passed to the constructor
MaxRetriesOpt == 4
\* granularity of the free-running clock, in ms
Quantum == 250
\* the clock runs freely for this many ms after the start; beyond that it
\* only jumps to pending timer deadlines
Horizon == 1000
\* number of concurrent callers of enforceRateLimit
NumCallers == 2
\* calls of enforceRateLimit the callers make in all
MaxCalls == 3
\* longest input sequence of batchProcess
MaxItems == 5
\* largest concurrency argument of batchProcess
MaxConcurrency == 3

(* Program constants *)

DefaultTimeout == 30000
DefaultMaxRetries == 3
DefaultRetryDelay == 1000
DefaultConcurrency == 5
MsPerSecond == 1000

----------------------------------------------------------------------------
(* JavaScript values *)

\* `x || d`: d when x is falsy. An option that is absent (undefined) or 0 is
\* written 0 here.
OrDefault(x, d) == IF x = 0 THEN d ELSE x

RECURSIVE Pow(_, _)
\* Math.pow(b, e) for a natural exponent
Pow(b, e) == IF e = 0 THEN 1 ELSE b * Pow(b, e - 1)

Min(S) == CHOOSE x \in S : \A y \in S : x <= y

RECURSIVE SumSeq(_)
SumSeq(s) == IF s = <<>> THEN 0 ELSE Head(s) + SumSeq(Tail(s))

\* Date.now() when the client is constructed: far beyond any minInterval
StartTimes == {5000}

----------------------------------------------------------------------------
(* Errors an operation handed to retryWithBackoff fails with: the three     *)
(* shapes the closure of request() throws (lines 87-100).                   *)

\* response statuses with !response.ok that the model draws from
Statuses == {400, 499, 500}

\* lines 88-91: new Error(`HTTP ${status}: ${statusText}`), error.status = status
HttpError(s) ==
    [name |-> "Error", message |-> "HTTP " \o ToString(s) \o ": ",
     hasStatus |-> TRUE, status |-> s]

\* line 98, mutated: the timeout error is given the status 408
TimeoutErrorWithStatus ==
    [name |-> "Error",
     message |-> "Request timeout after " \o ToString(DefaultTimeout) \o "ms",
     hasStatus |-> TRUE, status |-> 408]

\* line 98: new Error(`Request timeout after ${this.timeout}ms`), no status
TimeoutError ==
    [name |-> "Error",
     message |-> "Request timeout after " \o ToString(DefaultTimeout) \o "ms",
     hasStatus |-> FALSE, status |-> 0]

\* line 100: whatever fetch rejected with, rethrown (a network failure), no status
NetworkError ==
    [name |-> "TypeError", message |-> "fetch failed",
     hasStatus |-> FALSE, status |-> 0]

\* lines 77, 80: what fetch rejects with once controller.abort() has run
AbortError ==
    [name |-> "AbortError", message |-> "This operation was aborted",
     hasStatus |-> FALSE, status |-> 0]

\* lines 95-101: the catch of the closure: an AbortError becomes the timeout
\* error, anything else is thrown again as it is
RequestCatch(error) == IF error.name = "AbortError" THEN TimeoutError ELSE error

\* what is thrown inside the try of the closure (lines 79-94)
ThrownInTry == {HttpError(s) : s \in Statuses} \cup {AbortError, NetworkError}

OperationErrors == {RequestCatch(error) : error \in ThrownInTry}

\* no error / no value
None == [name |-> "none", message |-> "", hasStatus |-> FALSE, status |-> 0]

\* line 46, mutated: no error is a client error
IsClientErrorNever(error) == FALSE

\* line 46: error.status >= 400 && error.status < 500 (false when status is undefined)
IsClientError(error) == error.hasStatus /\ error.status >= 400 /\ error.status < 500

\* line 42: new Error(`Failed after ${this.maxRetries} attempts: ${error.message}`)
ExhaustedError(error) ==
    [name |-> "Error",
     message |-> "Failed after " \o ToString(maxRetries) \o " attempts: " \o error.message,
     hasStatus |-> FALSE, status |-> 0]

\* line 50, mutated: linear backoff
BackoffDelayLinear(a) == retryDelay * a

\* line 50: this.retryDelay * Math.pow(2, attempt - 1)
BackoffDelay(a) == retryDelay * Pow(2, a - 1)

\* line 41, mutated: the budget is spent one attempt later
BudgetSpentLate(a) == a > maxRetries

\* line 41: attempt >= this.maxRetries
BudgetSpent(a) == a >= maxRetries

----------------------------------------------------------------------------
(* The clock *)

\* the timers (sleep, line 138-140) that are pending
Deadlines ==
    (IF rpc = "sleeping" THEN {rWakeAt} ELSE {})
    \cup {cWakeAt[c] : c \in {d \in DOMAIN cpc : cpc[d] = "sleeping"}}

\* Date.now() is monotonic: time passes by a quantum, or up to a pending deadline
Tick ==
    /\ \E t \in {now + Quantum} \cup {d \in Deadlines : d > now} :
          /\ t \in Deadlines \/ t <= Min(StartTimes) + Horizon
          /\ now' = t
    /\ UNCHANGED <<cfgVars, reqVars, retryVars, rateVars, batchVars>>

----------------------------------------------------------------------------
(* retryWithBackoff (lines 37-56) *)

\* lines 38-39: fn() is invoked and awaited
InvokeFn(a) ==
    /\ attempt' = a
    /\ invocations' = invocations + 1
    /\ invokedAt' = Append(invokedAt, now)
    /\ rpc' = "awaiting"

\* the caller calls retryWithBackoff(fn) (attempt = 1)
RetryCall ==
    /\ rpc = "idle"
    /\ InvokeFn(1)
    /\ UNCHANGED <<outcomes, settledAt, sleeps, rWakeAt, settled>>
    /\ UNCHANGED <<cfgVars, reqVars, now, rateVars, batchVars>>

\* line 39: fn() resolved, its value is returned
FnResolves ==
    /\ rpc = "awaiting"
    /\ outcomes' = Append(outcomes, None)
    /\ settledAt' = Append(settledAt, now)
    /\ rpc' = "returned"
    /\ settled' = [kind |-> "resolved", error |-> None]
    /\ UNCHANGED <<attempt, invocations, invokedAt, sleeps, rWakeAt>>
    /\ UNCHANGED <<cfgVars, reqVars, now, rateVars, batchVars>>

\* lines 40-53: fn() rejected with error, the catch block runs up to its
\* throw or its await of sleep
FnRejects(error) ==
    /\ rpc = "awaiting"
    /\ outcomes' = Append(outcomes, error)
    /\ settledAt' = Append(settledAt, now)
    /\ IF BudgetSpent(attempt)
         THEN /\ rpc' = "thrown"
              /\ settled' = [kind |-> "rejected", error |-> ExhaustedError(error)]
              /\ UNCHANGED <<sleeps, rWakeAt>>
         ELSE IF IsClientError(error)
         THEN /\ rpc' = "thrown"
              /\ settled' = [kind |-> "rejected", error |-> error]
              /\ UNCHANGED <<sleeps, rWakeAt>>
         ELSE /\ rpc' = "sleeping"
              /\ sleeps' = Append(sleeps, BackoffDelay(attempt))
              /\ rWakeAt' = now + BackoffDelay(attempt)
              /\ UNCHANGED settled
    /\ UNCHANGED <<attempt, invocations, invokedAt>>
    /\ UNCHANGED <<cfgVars, reqVars, now, rateVars, batchVars>>

\* lines 53-54: the timer fired; retryWithBackoff(fn, attempt + 1) invokes fn again
RetryWake ==
    /\ rpc = "sleeping"
    /\ now >= rWakeAt
    /\ InvokeFn(attempt + 1)
    /\ UNCHANGED <<outcomes, settledAt, sleeps, rWakeAt, settled>>
    /\ UNCHANGED <<cfgVars, reqVars, now, rateVars, batchVars>>

----------------------------------------------------------------------------
(* enforceRateLimit (lines 21-32) *)

\* line 24: 1000 / this.rateLimit (the rate limits of the model divide 1000)
MinInterval == MsPerSecond \div rateLimit

\* line 27, mutated: the comparison turned around
MustWaitInverted(timeSinceLastRequest) == timeSinceLastRequest > MinInterval

\* line 27: timeSinceLastRequest < minInterval
MustWait(timeSinceLastRequest) == timeSinceLastRequest < MinInterval

\* line 31, mutated: the timestamp is not refreshed
StampStale == lastRequestTime

\* line 31: Date.now()
Stamp == now

Event(kind, c, n) == [kind |-> kind, caller |-> c, call |-> n, at |-> now]

\* caller c calls enforceRateLimit: lines 22-28 run up to the return of line
\* 22, the await of line 28 or, when there is nothing to wait for, line 31
AcquireStart(c) ==
    /\ cpc[c] = "idle"
    /\ Cardinality({k \in 1..Len(events) : events[k].kind = "start"}) < MaxCalls
    /\ callNo' = [callNo EXCEPT ![c] = @ + 1]
    /\ LET started == Append(events, Event("start", c, callNo[c] + 1))
           finished == Append(started, Event("done", c, callNo[c] + 1))
       IN  IF rateLimit = 0
             THEN /\ events' = finished
                  /\ UNCHANGED <<lastRequestTime, cpc, cWakeAt>>
             ELSE IF MustWait(now - lastRequestTime)
             THEN /\ cpc' = [cpc EXCEPT ![c] = "sleeping"]
                  /\ cWakeAt' = [cWakeAt EXCEPT
                                   ![c] = now + (MinInterval - (now - lastRequestTime))]
                  /\ events' = started
                  /\ UNCHANGED lastRequestTime
             ELSE /\ lastRequestTime' = Stamp
                  /\ events' = finished
                  /\ UNCHANGED <<cpc, cWakeAt>>
    /\ UNCHANGED <<cfgVars, reqVars, now, retryVars, batchVars>>

\* lines 28-31: the timer of caller c fired; the timestamp is set and the
\* call returns
AcquireWake(c) ==
    /\ cpc[c] = "sleeping"
    /\ now >= cWakeAt[c]
    /\ lastRequestTime' = Stamp
    /\ cpc' = [cpc EXCEPT ![c] = "idle"]
    /\ events' = Append(events, Event("done", c, callNo[c]))
    /\ UNCHANGED <<cWakeAt, callNo>>
    /\ UNCHANGED <<cfgVars, reqVars, now, retryVars, batchVars>>

----------------------------------------------------------------------------
(* batchProcess (lines 108-136) *)

\* JavaScript values the processor returns or throws
Num(n) == [type |-> "number", v |-> n]
JsNull == [type |-> "null", v |-> 0]
JsUndefined == [type |-> "undefined", v |-> 0]
ErrorObject == [type |-> "Error", v |-> 0]

\* what a processor may throw or reject with: an Error, or (as Promise.reject()
\* does) undefined
ThrownValues == {ErrorObject, JsUndefined}

\* the truthiness `if (error)` tests (line 127)
Truthy(x) == x.type = "Error" \/ (x.type = "number" /\ x.v # 0)

\* the processor of the README's and the spec's examples: x -> x * 2
Processor(item) == Num(item * 2)

\* items.length
Length == Cardinality(DOMAIN items)

\* line 113, mutated: the slice takes one item more
SliceEndOff(from) == IF from + concurrency + 1 < Length THEN from + concurrency + 1 ELSE Length

\* line 113: the end of items.slice(i, i + concurrency)
SliceEnd(from) == IF from + concurrency < Length THEN from + concurrency ELSE Length

\* the indexes i + index of the batch starting at from (lines 113, 118)
BatchIndexes(from) == from..(SliceEnd(from) - 1)

Settled(k) == status[k].state \in {"fulfilled", "rejected"}

\* line 124, mutated: Promise.race, the first promise to settle wins
BatchSettledAny == \E k \in BatchIndexes(i) : Settled(k)

\* lines 119-124, mutated: the promise of a rejected invocation never settles
BatchSettledFulfilled == \A k \in BatchIndexes(i) : status[k].state = "fulfilled"

\* line 124: Promise.all over promises that never reject is fulfilled when all are
BatchSettled == \A k \in BatchIndexes(i) : Settled(k)

\* lines 116-121: what the promise of index k is fulfilled with
BatchResult(k) ==
    IF status[k].state = "fulfilled"
      THEN [index |-> k, result |-> status[k].value, error |-> JsNull]
      ELSE [index |-> k, result |-> JsNull, error |-> status[k].value]

\* line 130: results[index] = result
SetIndex(array, index, value) ==
    [k \in DOMAIN array \cup {index} |-> IF k = index THEN value ELSE array[k]]

RECURSIVE ForEachReversed(_, _, _, _)
\* lines 126-132, mutated: the batch's outcomes are filed last index first
ForEachReversed(from, to, res, errs) ==
    IF from >= to THEN [results |-> res, errors |-> errs]
    ELSE LET r == BatchResult(to - 1)
         IN  IF Truthy(r.error)
               THEN ForEachReversed(from, to - 1, res,
                                    Append(errs, [index |-> r.index, error |-> r.error]))
               ELSE ForEachReversed(from, to - 1, SetIndex(res, r.index, r.result), errs)

RECURSIVE ForEach(_, _, _, _)
\* lines 126-132: batchResults.forEach over the indexes from..(to - 1), in
\* index order, from the accumulated [results, errors]
ForEach(from, to, res, errs) ==
    IF from >= to THEN [results |-> res, errors |-> errs]
    ELSE LET r == BatchResult(from)
         IN  IF Truthy(r.error)
               THEN ForEach(from + 1, to, res,
                            Append(errs, [index |-> r.index, error |-> r.error]))
               ELSE ForEach(from + 1, to, SetIndex(res, r.index, r.result), errs)

\* lines 112-124: the loop test at i = from, and, when it passes, the batch
\* is sliced, the processor is invoked on each of its items and Promise.all
\* is awaited; otherwise line 135 returns
LoopFrom(from) ==
    /\ i' = from
    /\ IF from < Length
         THEN /\ bpc' = "awaiting"
              /\ status' = [k \in DOMAIN status |->
                              IF k \in BatchIndexes(from)
                                THEN [state |-> "running", value |-> JsUndefined]
                                ELSE status[k]]
              /\ windows' = Append(windows, BatchIndexes(from))
         ELSE /\ bpc' = "done"
              /\ UNCHANGED <<status, windows>>

\* the caller calls batchProcess(items, processor, concurrency): lines 109-110
\* and the first run of the loop
BatchCall ==
    /\ bpc = "idle"
    /\ results' = <<>>
    /\ errors' = <<>>
    /\ LoopFrom(0)
    /\ UNCHANGED <<items, concurrency, settleOrder>>
    /\ UNCHANGED <<cfgVars, reqVars, now, retryVars, rateVars>>

\* line 117: the processor's promise for index k is fulfilled
ProcessorFulfils(k) ==
    /\ status[k].state = "running"
    /\ status' = [status EXCEPT ![k] = [state |-> "fulfilled", value |-> Processor(items[k])]]
    /\ settleOrder' = Append(settleOrder, k)
    /\ UNCHANGED <<items, concurrency, i, bpc, windows, results, errors>>
    /\ UNCHANGED <<cfgVars, reqVars, now, retryVars, rateVars>>

\* lines 117, 119: the processor throws, or its promise is rejected, with x
ProcessorRejects(k, x) ==
    /\ status[k].state = "running"
    /\ status' = [status EXCEPT ![k] = [state |-> "rejected", value |-> x]]
    /\ settleOrder' = Append(settleOrder, k)
    /\ UNCHANGED <<items, concurrency, i, bpc, windows, results, errors>>
    /\ UNCHANGED <<cfgVars, reqVars, now, retryVars, rateVars>>

\* lines 124-133 and on: Promise.all is fulfilled, forEach files the batch's
\* outcomes, i += concurrency and the loop runs again
BatchResume ==
    /\ bpc = "awaiting"
    /\ BatchSettled
    /\ LET filed == ForEach(i, SliceEnd(i), results, errors)
       IN  /\ results' = filed.results
           /\ errors' = filed.errors
    /\ LoopFrom(i + concurrency)
    /\ UNCHANGED <<items, concurrency, settleOrder>>
    /\ UNCHANGED <<cfgVars, reqVars, now, retryVars, rateVars>>

----------------------------------------------------------------------------
(* Initial values of the parts a specification does not exercise *)

RetryIdle ==
    /\ rpc = "idle" /\ attempt = 0 /\ invocations = 0
    /\ invokedAt = <<>> /\ outcomes = <<>> /\ settledAt = <<>>
    /\ sleeps = <<>> /\ rWakeAt = 0
    /\ settled = [kind |-> "pending", error |-> None]

RateIdle ==
    /\ cpc = [c \in 1..NumCallers |-> "idle"]
    /\ cWakeAt = [c \in 1..NumCallers |-> 0]
    /\ callNo = [c \in 1..NumCallers |-> 0]
    /\ events = <<>>

\* {}
EmptyObject == [k \in {} |-> ""]

\* line 15: this.defaultHeaders = options.headers || {}
ConstructorHeaders(optH) == defaultHeaders = optH

\* no default headers are configured and request is not called
RequestIdle == ConstructorHeaders(EmptyObject) /\ options = EmptyObject

BatchIdle ==
    /\ items = <<>> /\ concurrency = DefaultConcurrency /\ i = 0
    /\ bpc = "idle" /\ status = <<>> /\ windows = <<>>
    /\ results = <<>> /\ errors = <<>> /\ settleOrder = <<>>

\* batchProcess is about to be called with n items and concurrency c
BatchArguments(n, c) ==
    /\ items = [k \in 0..(n - 1) |-> k + 1]
    /\ concurrency = c
    /\ i = 0 /\ bpc = "idle" /\ windows = <<>>
    /\ status = [k \in 0..(n - 1) |-> [state |-> "waiting", value |-> JsUndefined]]
    /\ results = <<>> /\ errors = <<>> /\ settleOrder = <<>>

\* constructor (lines 8-16), with the options drawn from optR, optD, optL
Constructor(optR, optD, optL) ==
    /\ maxRetries = OrDefault(optR, DefaultMaxRetries)
    /\ retryDelay = OrDefault(optD, DefaultRetryDelay)
    /\ rateLimit = optL
    /\ lastRequestTime = 0

----------------------------------------------------------------------------
(* request and the convenience methods (lines 61-103, 143-165) *)

\* {...a, ...b}: the keys of both, b's value where both have the key
Spread(a, b) ==
    [k \in DOMAIN a \cup DOMAIN b |-> IF k \in DOMAIN b THEN b[k] ELSE a[k]]

\* lines 143-145, 163-165: get and delete call request with {method, headers}
\* (headers = {} when the caller passes none)
WithoutBody(method, headers) == [method |-> method, headers |-> headers]

\* lines 147-161: post and put call request with {method, body, headers}
WithBody(method, headers) ==
    [method |-> method, body |-> "JSON.stringify(data)", headers |-> headers]

\* the options the four convenience methods hand to request for the headers
\* of a call
MethodOptions(headers) ==
    {WithoutBody("GET", headers), WithBody("POST", headers),
     WithBody("PUT", headers), WithoutBody("DELETE", headers)}

\* line 70: ...options.headers (nothing when options has no headers)
OptionHeaders == IF "headers" \in DOMAIN options THEN options.headers ELSE EmptyObject

\* lines 67-71: {'Content-Type': 'application/json', ...this.defaultHeaders,
\* ...options.headers}
MergedHeaders ==
    Spread(Spread([k \in {"Content-Type"} |-> "application/json"], defaultHeaders),
           OptionHeaders)

\* lines 65-73: {timeout, headers: {...}, ...options}
Config == Spread([timeout |-> DefaultTimeout, headers |-> MergedHeaders], options)

\* lines 80-83: the init of fetch, {...config, signal: controller.signal}
FetchInit == Spread(Config, [signal |-> "controller.signal"])

\* line 62, mutated: enforceRateLimit is called and not awaited
RateLimitNotAwaited == callNo[1] = 1

\* line 62: await this.enforceRateLimit() has returned (the request is caller 1)
RateLimitAcquired == callNo[1] = 1 /\ cpc[1] = "idle"

\* line 62: request is called and calls enforceRateLimit
RequestCall ==
    /\ callNo[1] = 0
    /\ AcquireStart(1)

\* lines 64-80: after the await of line 62 the config is built,
\* retryWithBackoff is called and invokes the closure, which calls fetch
RequestProceed ==
    /\ RateLimitAcquired
    /\ RetryCall

\* line 62 of earlier requests of the same client, made one after the other
\* (caller 2)
OtherRequestCall ==
    /\ callNo[1] = 0
    /\ AcquireStart(2)

----------------------------------------------------------------------------
(* Specification of the retry loop *)

InitRetry ==
    /\ \E optR \in 0..MaxRetriesOpt, optD \in {0, 100, 1000} :
          Constructor(optR, optD, 0)
    /\ now \in StartTimes
    /\ RetryIdle /\ RateIdle /\ BatchIdle /\ RequestIdle

NextRetry ==
    \/ RetryCall
    \/ FnResolves
    \/ \E error \in OperationErrors : FnRejects(error)
    \/ RetryWake
    \/ Tick

SpecRetry == InitRetry /\ [][NextRetry]_vars

\* retryWithBackoff is called, every invocation of fn settles, time passes
\* and a timer that is due fires
FairRetry ==
    /\ WF_vars(RetryCall)
    /\ WF_vars(FnResolves \/ \E error \in OperationErrors : FnRejects(error))
    /\ WF_vars(Tick)
    /\ WF_vars(RetryWake)

SpecRetryFair == SpecRetry /\ FairRetry

----------------------------------------------------------------------------
(* Specification of the rate limiter under concurrent callers *)

\* requests per second given to the constructor (0: none given)
RateLimits == {0, 1, 2, 4}

InitRate ==
    /\ \E optL \in RateLimits : Constructor(0, 0, optL)
    /\ now \in StartTimes
    /\ RetryIdle /\ RateIdle /\ BatchIdle /\ RequestIdle

NextRate ==
    \/ \E c \in 1..NumCallers : AcquireStart(c)
    \/ \E c \in 1..NumCallers : AcquireWake(c)
    \/ Tick

SpecRate == InitRate /\ [][NextRate]_vars

----------------------------------------------------------------------------
(* Specification of the batch scheduler *)

\* the items are 1, 2, ..., n; the concurrency is given, or omitted (line 108)
InitBatch ==
    /\ Constructor(0, 0, 0)
    /\ now \in StartTimes
    /\ RetryIdle /\ RateIdle /\ RequestIdle
    /\ \E n \in 0..MaxItems, c \in 1..MaxConcurrency \cup {DefaultConcurrency} :
          BatchArguments(n, c)

NextBatch ==
    \/ BatchCall
    \/ \E k \in DOMAIN status : ProcessorFulfils(k)
    \/ \E k \in DOMAIN status, x \in ThrownValues : ProcessorRejects(k, x)
    \/ BatchResume

SpecBatch == InitBatch /\ [][NextBatch]_vars

\* batchProcess is called, every invocation of the processor settles, and the
\* event loop runs a continuation that is ready
FairBatch ==
    /\ WF_vars(BatchCall)
    /\ WF_vars(\E k \in DOMAIN status :
                  ProcessorFulfils(k) \/ \E x \in ThrownValues : ProcessorRejects(k, x))
    /\ WF_vars(BatchResume)

SpecBatchFair == SpecBatch /\ FairBatch

----------------------------------------------------------------------------
(* Specification of one request through get, post, put or delete, next to   *)
(* other requests of the same client                                        *)

\* the headers option of the constructor: none, or the README's
DefaultHeaderObjects == {EmptyObject, [k \in {"Authorization"} |-> "Bearer your-token"]}

\* the headers argument of a call: none, or one header
CallHeaderObjects == {EmptyObject, [k \in {"X-Trace"} |-> "1"]}

\* new AdvancedAPIClient({maxRetries: 2, retryDelay: 100, rateLimit, headers})
\* and one call of get, post, put or delete
InitRequest ==
    /\ \E optL \in {0, 1} : Constructor(2, 100, optL)
    /\ \E optH \in DefaultHeaderObjects : ConstructorHeaders(optH)
    /\ \E headers \in CallHeaderObjects : options \in MethodOptions(headers)
    /\ now \in StartTimes
    /\ RetryIdle /\ RateIdle /\ BatchIdle

NextRequest ==
    \/ RequestCall
    \/ OtherRequestCall
    \/ \E c \in {1, 2} : AcquireWake(c)
    \/ RequestProceed
    \/ FnResolves
    \/ \E error \in OperationErrors : FnRejects(error)
    \/ RetryWake
    \/ Tick

SpecRequest == InitRequest /\ [][NextRequest]_vars

----------------------------------------------------------------------------
(* Properties of the retry loop *)

\* the error carries a status code in [400,500)
Status4xx(error) == error.hasStatus /\ error.status \in 400..499

\* every attempt so far failed, none with a 4xx status
AllTransient ==
    \A k \in 1..Len(outcomes) : outcomes[k] # None /\ ~Status4xx(outcomes[k])

LastOutcome == outcomes[Len(outcomes)]

\* C1: an operation whose failure carries a status in [400,500) is invoked
\* exactly once and retryWithBackoff fails without any backoff suspension,
\* for every maxRetries >= 1.
C1_ClientFaultInvokedOnce ==
    (outcomes # <<>> /\ Status4xx(outcomes[1])) =>
        /\ invocations = 1
        /\ sleeps = <<>>
        /\ rpc = "thrown"
        /\ settled.kind = "rejected"

C1_Witness ==
    /\ maxRetries > 1
    /\ outcomes = <<HttpError(499)>>
    /\ rpc = "thrown"

\* C2: an operation that fails with a non-4xx error on every attempt is
\* invoked exactly maxRetries times; between the failure of attempt a and the
\* invocation of attempt a+1 the loop suspends for retryDelay * 2^(a-1); only
\* after attempt maxRetries it fails, with the error
\* 'Failed after <maxRetries> attempts: <last cause>'.
C2_TransientExhausts ==
    AllTransient =>
        /\ invocations <= maxRetries
        /\ rpc # "returned"
        /\ Len(sleeps) = IF rpc = "thrown" THEN Len(outcomes) - 1 ELSE Len(outcomes)
        /\ \A a \in 1..Len(sleeps) : sleeps[a] = retryDelay * Pow(2, a - 1)
        /\ \A a \in 1..(Len(invokedAt) - 1) :
               invokedAt[a + 1] - settledAt[a] >= retryDelay * Pow(2, a - 1)
        /\ rpc = "thrown" =>
               /\ invocations = maxRetries
               /\ Len(sleeps) = maxRetries - 1
               /\ settled.kind = "rejected"
               /\ settled.error.message =
                      "Failed after " \o ToString(maxRetries) \o " attempts: "
                          \o LastOutcome.message

C2_Witness ==
    /\ AllTransient
    /\ rpc = "thrown"
    /\ maxRetries = 4
    /\ sleeps = <<100, 200, 400>>
    /\ TimeoutError \in {outcomes[k] : k \in 1..Len(outcomes)}

\* C8: whenever retryWithBackoff fails, the error it surfaces is either the
\* 4xx error itself (status preserved) or the 'Failed after N attempts' error
\* wrapping a non-4xx cause; a 4xx failure is never surfaced wrapped.
C8_ClientFaultNeverWrapped ==
    rpc = "thrown" =>
        \/ Status4xx(LastOutcome) /\ settled.error = LastOutcome
        \/ /\ ~Status4xx(LastOutcome)
           /\ settled.error.message =
                  "Failed after " \o ToString(maxRetries) \o " attempts: "
                      \o LastOutcome.message

\* C9: with maxRetries 3 and retryDelay 1000 a request that keeps failing with
\* a retryable error is retried 3 times after the first attempt, after
\* backoff delays of 1s, 2s and 4s.
C9_ThreeRetriesOneTwoFour ==
    (maxRetries = 3 /\ retryDelay = 1000 /\ AllTransient /\ rpc = "thrown") =>
        /\ invocations = 1 + 3
        /\ sleeps = <<1000, 2000, 4000>>

----------------------------------------------------------------------------
(* Properties of the rate limiter *)

\* the completions of enforceRateLimit calls, as positions of the event log
DoneIdx == {k \in 1..Len(events) : events[k].kind = "done"}

\* the position at which the call completing at position k started
StartOf(k) ==
    CHOOSE j \in 1..Len(events) :
        /\ events[j].kind = "start"
        /\ events[j].caller = events[k].caller
        /\ events[j].call = events[k].call

\* the completions of caller c, in order
DonesOf(c) == {k \in DoneIdx : events[k].caller = c}

\* 1000/r ms
Spacing == 1000 \div rateLimit

\* C3: on a rate-limited client any two completions of enforceRateLimit, also
\* of calls that overlap, are at least 1000/rateLimit ms apart.
C3_OverlappingAcquiresSpaced ==
    rateLimit # 0 =>
        \A p, q \in DoneIdx : p < q => events[q].at - events[p].at >= Spacing

\* C10: on a rate-limited client, when a call of enforceRateLimit starts after
\* an earlier call has completed, their completions are at least
\* 1000/rateLimit ms apart; so the k-th of k calls made one after the other
\* completes at least (k-1) * 1000/rateLimit ms after the first one started.
C10_SequentialAcquiresSpaced ==
    rateLimit # 0 =>
        /\ \A p, q \in DoneIdx :
               p < StartOf(q) => events[q].at - events[p].at >= Spacing
        /\ \A c \in 1..NumCallers : \A q \in DonesOf(c) :
               events[q].at - events[StartOf(Min(DonesOf(c)))].at
                   >= (events[q].call - 1) * Spacing

C10_Witness ==
    /\ rateLimit = 2
    /\ callNo[1] = 3 /\ cpc[1] = "idle" /\ callNo[2] = 0
    /\ Len(events) = 6
    /\ events[6].at - events[1].at = 1000

----------------------------------------------------------------------------
(* Properties of the batch scheduler *)

InFlight == {k \in DOMAIN status : status[k].state = "running"}

\* ceil(n / c)
CeilDiv(n, c) == (n + c - 1) \div c

\* the w-th block of c consecutive indexes of 0..n-1
Block(w, n, c) == {k \in 0..(n - 1) : (w - 1) * c <= k /\ k < w * c}

\* C4: at every instant at most `concurrency` processor invocations are in
\* flight; the windows launched are the consecutive blocks of `concurrency`
\* indexes, in order (the last one possibly smaller), only the latest one has
\* invocations in flight, and a finished run has launched exactly
\* ceil(n / concurrency) of them.
C4_BoundedWindows ==
    /\ Cardinality(InFlight) <= concurrency
    /\ Len(windows) <= CeilDiv(Length, concurrency)
    /\ \A w \in 1..Len(windows) : windows[w] = Block(w, Length, concurrency)
    /\ \A k \in InFlight : k \in windows[Len(windows)]
    /\ bpc = "done" => Len(windows) = CeilDiv(Length, concurrency)

C4_Witness ==
    /\ bpc = "done"
    /\ Length = 5 /\ concurrency = 2
    /\ windows = <<{0, 1}, {2, 3}, {4}>>
    /\ results = [k \in 0..4 |-> Num(2 * (k + 1))]
    /\ errors = <<>>

\* the indexes whose invocation has started
Started == UNION {windows[w] : w \in 1..Len(windows)}

\* C5: whenever a window is launched, every invocation started before it has
\* settled, fulfilled or rejected.
C5_WindowsHappenBefore ==
    [][Len(windows') > Len(windows) => \A k \in Started : Settled(k)]_vars

C5_Witness ==
    /\ Len(windows) >= 2
    /\ \E k \in windows[1] : status[k].state = "rejected"
    /\ \E k \in windows[1] : status[k].state = "fulfilled"
    /\ InFlight # {}

\* the entries of errors for index k
ErrorsOf(k) == {e \in 1..Len(errors) : errors[e].index = k}

\* C6: after batchProcess, results[k] is the processor's result for items[k]
\* for every index k whose invocation was fulfilled; for every index k whose
\* invocation was rejected results[k] is a gap and errors holds an entry
\* {index: k, error} with the value it was rejected with.
C6_IndexAlignment ==
    bpc = "done" =>
        \A k \in DOMAIN items :
            /\ status[k].state = "fulfilled" =>
                   k \in DOMAIN results /\ results[k] = Processor(items[k])
            /\ status[k].state = "rejected" =>
                   /\ k \notin DOMAIN results
                   /\ \E e \in ErrorsOf(k) : errors[e].error = status[k].value

\* C7: whatever value an invocation is rejected with, after batchProcess the
\* rejected index has exactly one entry in errors, and every index is either
\* a success recorded in results or an entry of errors, never both.
C7_FailuresOnlyInErrors ==
    bpc = "done" =>
        \A k \in DOMAIN items :
            /\ status[k].state = "rejected" => Cardinality(ErrorsOf(k)) = 1
            /\ (k \in DOMAIN results) # (ErrorsOf(k) # {})

----------------------------------------------------------------------------
(* Further properties of the retry loop *)

\* the number of failed attempts so far
Failures == Cardinality({k \in 1..Len(outcomes) : outcomes[k] # None})

\* C11: when the operation fails with non-4xx errors on its first k attempts,
\* k < maxRetries, and is fulfilled on attempt k+1, retryWithBackoff returns
\* after exactly k+1 invocations and backoff sleeps of retryDelay * (2^k - 1)
\* in all, which have elapsed by then; with k = 0 it returns after one
\* invocation and no sleep.
C11_SuccessAfterTransients ==
    rpc = "returned" =>
        LET k == Len(outcomes) - 1
        IN  /\ Failures = k
            /\ k < maxRetries
            /\ \A a \in 1..k : ~Status4xx(outcomes[a])
            /\ invocations = k + 1
            /\ settled.kind = "resolved"
            /\ Len(sleeps) = k
            /\ SumSeq(sleeps) = retryDelay * (Pow(2, k) - 1)
            /\ settledAt[k + 1] - invokedAt[1] >= retryDelay * (Pow(2, k) - 1)

C11_Witness ==
    /\ rpc = "returned"
    /\ maxRetries = 3 /\ retryDelay = 100
    /\ invocations = 3
    /\ SumSeq(sleeps) = 300
    /\ settledAt[3] - invokedAt[1] >= 300

----------------------------------------------------------------------------
(* Further properties of the batch scheduler *)

\* the position of index k in the order in which the invocations settled
SettlePos(k) == CHOOSE p \in 1..Len(settleOrder) : settleOrder[p] = k

\* the window index k was launched in
WindowOf(k) == CHOOSE w \in 1..Len(windows) : k \in windows[w]

\* C12, as claimed: the entries of errors are in the order in which the
\* failing invocations settled within their window, windows in sequence.
C12_ErrorsInCompletionOrder ==
    bpc = "done" =>
        \A a, b \in 1..Len(errors) :
            a < b =>
                /\ WindowOf(errors[a].index) <= WindowOf(errors[b].index)
                /\ WindowOf(errors[a].index) = WindowOf(errors[b].index) =>
                       SettlePos(errors[a].index) < SettlePos(errors[b].index)

\* C12, amended: the entries of errors are in ascending order of index, the
\* order of the input: windows in sequence and, within a window, the order of
\* the items, whatever the order in which their invocations settled.
C12_ErrorsInIndexOrder ==
    \A a, b \in 1..Len(errors) : a < b => errors[a].index < errors[b].index

C12_Witness ==
    /\ bpc = "done"
    /\ \E a, b \in 1..Len(errors) :
          /\ a < b
          /\ WindowOf(errors[a].index) = WindowOf(errors[b].index)
          /\ SettlePos(errors[b].index) < SettlePos(errors[a].index)

----------------------------------------------------------------------------
(* Properties of the retry loop about timeouts and the attempt budget *)

\* the error of an attempt that was aborted after the timeout
IsTimeout(error) == error.message = "Request timeout after 30000ms"

\* C13: an attempt that times out is a failure without a 4xx status; while
\* attempts remain (it is attempt k < maxRetries) the loop sleeps the normal
\* backoff retryDelay * 2^(k-1) and then invokes the operation again; a
\* timeout ends the loop only as attempt maxRetries, with the 'Failed after'
\* error.
C13_TimeoutIsRetried ==
    \A k \in 1..Len(outcomes) :
        IsTimeout(outcomes[k]) =>
            /\ ~Status4xx(outcomes[k])
            /\ k < maxRetries =>
                   /\ Len(sleeps) >= k
                   /\ sleeps[k] = retryDelay * Pow(2, k - 1)
                   /\ invocations = k => rpc = "sleeping"
                   /\ Len(invokedAt) > k =>
                          invokedAt[k + 1] - settledAt[k] >= retryDelay * Pow(2, k - 1)
            /\ (rpc = "thrown" /\ Len(outcomes) = k) =>
                   /\ k = maxRetries
                   /\ settled.error.message =
                          "Failed after " \o ToString(maxRetries) \o " attempts: "
                              \o "Request timeout after 30000ms"

C13_Witness ==
    /\ Len(outcomes) >= 2
    /\ IsTimeout(outcomes[1])
    /\ IsTimeout(outcomes[2])
    /\ invocations = 3
    /\ sleeps = <<1000, 2000>>

\* C14: a backoff sleep happens only between a failed attempt and the retry
\* that follows it: every sleep but a pending one has been followed by an
\* invocation, and when attempt number maxRetries fails, with any error,
\* retryWithBackoff fails at once without sleeping; with maxRetries = 1 the
\* first failure is terminal, after one invocation and no sleep.
C14_NoBackoffAfterLastAttempt ==
    /\ Len(sleeps) = IF rpc = "sleeping" THEN invocations
                     ELSE IF invocations = 0 THEN 0 ELSE invocations - 1
    /\ Len(sleeps) <= maxRetries - 1
    /\ (Len(outcomes) = maxRetries /\ LastOutcome # None) =>
           /\ rpc = "thrown"
           /\ settled.kind = "rejected"
           /\ invocations = maxRetries
           /\ Len(sleeps) = maxRetries - 1
    /\ (maxRetries = 1 /\ outcomes # <<>> /\ outcomes[1] # None) =>
           /\ rpc = "thrown"
           /\ invocations = 1
           /\ sleeps = <<>>

C14_Witness ==
    /\ maxRetries = 1
    /\ outcomes = <<HttpError(500)>>
    /\ rpc = "thrown"
    /\ sleeps = <<>>

\* C15: for every input sequence and every positive concurrency, when every
\* invocation of the processor settles, batchProcess eventually returns
\* {results, errors}, whatever mix of fulfilled and rejected invocations.
C15_BatchTerminates == <>(bpc = "done")

C15_Witness ==
    /\ bpc = "done"
    /\ Length = 5
    /\ \E k \in DOMAIN status : status[k].state = "rejected"
    /\ \E k \in DOMAIN status : status[k].state = "fulfilled"
    /\ DOMAIN results # {} /\ errors # <<>>

\* the number of times the processor was invoked on index k
Invoked(k) == Cardinality({w \in 1..Len(windows) : k \in windows[w]})

\* C17: the processor is never invoked twice on an item, and when
\* batchProcess has returned it has been invoked exactly once on every item,
\* also on the items after one that was rejected.
C17_EachItemInvokedOnce ==
    /\ \A k \in DOMAIN items : Invoked(k) <= 1
    /\ \A k \in DOMAIN items : Invoked(k) = 1 <=> status[k].state # "waiting"
    /\ bpc = "done" => \A k \in DOMAIN items : Invoked(k) = 1 /\ Settled(k)

C17_Witness ==
    /\ bpc = "done"
    /\ Length = 5 /\ concurrency = 2
    /\ status[0].state = "rejected" /\ status[2].state = "rejected"
    /\ \A k \in DOMAIN items : Invoked(k) = 1
    /\ status[1].state = "fulfilled" /\ status[4].state = "fulfilled"

\* C18: when every invocation of the operation settles, retryWithBackoff
\* terminates, returning or failing, after at least 1 and at most maxRetries
\* invocations; the attempt counter is 1 at the first invocation, counts the
\* invocations, grows by exactly 1 per retry and never exceeds maxRetries.
C18_RetryTerminates ==
    /\ [](rpc # "idle" =>
            /\ attempt \in 1..maxRetries
            /\ invocations = attempt)
    /\ [][/\ attempt' \in {attempt, attempt + 1}
          /\ invocations' \in {invocations, invocations + 1}
          /\ rpc \in {"returned", "thrown"} => rpc' = rpc]_vars
    /\ <>(rpc \in {"returned", "thrown"})

C18_Witness ==
    /\ rpc = "returned"
    /\ maxRetries = 4
    /\ attempt = 4 /\ invocations = 4

----------------------------------------------------------------------------
(* Further properties of the rate limiter *)

\* C19: on a rate-limited client every step that completes an
\* enforceRateLimit call completes one call and sets lastRequestTime to the
\* time of that step, whether or not the call slept; no other step changes
\* lastRequestTime, and it never decreases.
C19_StampedAtCompletion ==
    [][/\ lastRequestTime' >= lastRequestTime
       /\ Cardinality(DoneIdx') <= Cardinality(DoneIdx) + 1
       /\ (rateLimit # 0 /\ Cardinality(DoneIdx') > Cardinality(DoneIdx)) =>
              lastRequestTime' = now /\ now' = now
       /\ lastRequestTime' # lastRequestTime =>
              Cardinality(DoneIdx') > Cardinality(DoneIdx)]_vars

\* a call that did not sleep and a call that slept have both completed, the
\* latter just now
C19_Witness ==
    /\ rateLimit # 0
    /\ Len(events) >= 4
    /\ events[2].kind = "done" /\ events[2].at = events[1].at
    /\ events[Len(events)].kind = "done"
    /\ events[Len(events)].at > events[StartOf(Len(events))].at
    /\ lastRequestTime = now
    /\ lastRequestTime = events[Len(events)].at

----------------------------------------------------------------------------
(* Properties of request *)

\* the request's own calls and returns of enforceRateLimit
RequestAcquires(kind) ==
    {k \in 1..Len(events) : events[k].caller = 1 /\ events[k].kind = kind}

\* C16: the headers of every fetch of a request made through get, post, put
\* or delete hold 'Content-Type', every default header of the client and
\* every header passed to the call, the call's value winning over the
\* default's, also when the call passes no headers.
C16_DefaultHeadersSent ==
    invocations >= 1 =>
        LET sent == FetchInit.headers
            call == options.headers
        IN  /\ "Content-Type" \in DOMAIN sent
            /\ \A h \in DOMAIN call : h \in DOMAIN sent /\ sent[h] = call[h]
            /\ \A h \in DOMAIN defaultHeaders \ DOMAIN call :
                   h \in DOMAIN sent /\ sent[h] = defaultHeaders[h]

\* C20: once a transport attempt of a request has started, the request has
\* called enforceRateLimit exactly once and that call had returned before
\* the first attempt started; retries do not call it again and do not touch
\* lastRequestTime, which on a rate-limited client stays the time of the
\* latest return of enforceRateLimit.
C20_AcquiredOncePerRequest ==
    invocations >= 1 =>
        /\ Cardinality(RequestAcquires("start")) = 1
        /\ Cardinality(RequestAcquires("done")) = 1
        /\ cpc[1] = "idle"
        /\ \A k \in RequestAcquires("done") : events[k].at <= invokedAt[1]
        /\ rateLimit # 0 =>
               lastRequestTime = events[CHOOSE k \in DoneIdx : \A j \in DoneIdx : j <= k].at

\* the request slept in enforceRateLimit, and its second transport attempt
\* started less than 1000/rateLimit ms after the first
C20_Witness ==
    /\ rateLimit = 1
    /\ invocations = 2
    /\ \E k \in RequestAcquires("done") : events[k].at > events[StartOf(k)].at
    /\ invokedAt[2] - invokedAt[1] = 100
    /\ invokedAt[2] - invokedAt[1] < Spacing
    /\ lastRequestTime <= invokedAt[1]

====
